---- MODULE Spec2Model ----
(***************************************************************************)
(* Port-forward orchestration core of kftray                               *)
(* (crates/kftray-portforward/src/core.rs).                                *)
(*                                                                         *)
(* The model follows the five entry points start_port_forward,             *)
(* stop_port_forward, stop_all_port_forward, deploy_and_forward_pod and    *)
(* stop_proxy_forward step by step.  A step is the code between two        *)
(* accesses to shared state (the CHILD_PROCESSES registry, the config      *)
(* state store, the hosts file, the cluster).  Strings that the code       *)
(* formats and parses again (composite keys, hosts markers, pod names) are *)
(* sequences of characters, formatted and split as the code does it.       *)
(***************************************************************************)
EXTENDS Integers, Sequences, FiniteSets, TLC

\* ------------------------------------------------------------------ bounds
\* Calls begun in one behaviour.
MaxCalls == 3
\* Configs in one Start / DeployAndForward batch.
MaxBatch == 2
\* Failures of the hosts file, the stores and the cluster in one behaviour.
MaxFaults == 1
\* Entries of one kftray.app/configs annotation.
MaxEntries == 2
\* Namespaces of the cluster retrieve_service_configs looks into.
MaxNamespaces == 2

\* --------------------------------------------------------- Option<T> values
\* Rust's Option: None is the empty sequence, Some(v) the one-element one.
None == <<>>
Some(v) == <<v>>
IsSome(o) == Len(o) > 0
Unwrap(o) == o[1]
UnwrapOr(o, d) == IF IsSome(o) THEN o[1] ELSE d

\* ------------------------------------------------------------------ strings
\* A string is a sequence of one-character strings.
RECURSIVE Concat(_)
Concat(ss) == IF ss = <<>> THEN <<>> ELSE Head(ss) \o Concat(Tail(ss))

starts_with(s, prefix) ==
    /\ Len(prefix) <= Len(s)
    /\ SubSeq(s, 1, Len(prefix)) = prefix

DigitChars == <<"0", "1", "2", "3", "4", "5", "6", "7", "8", "9">>

\* i64::to_string for the non-negative ids of the model.
RECURSIVE to_string(_)
to_string(n) ==
    IF n < 10 THEN <<DigitChars[n + 1]>>
    ELSE to_string(n \div 10) \o <<DigitChars[(n % 10) + 1]>>

DigitValue(c) == CHOOSE d \in 0..9 : DigitChars[d + 1] = c
IsDigit(c) == \E d \in 0..9 : DigitChars[d + 1] = c

RECURSIVE DecimalValue(_)
DecimalValue(s) ==
    IF s = <<>> THEN 0
    ELSE 10 * DecimalValue(SubSeq(s, 1, Len(s) - 1)) + DigitValue(s[Len(s)])

\* str::parse::<i64>().unwrap_or_default(): 0 when the text is no number.
parse_i64_or_default(s) ==
    IF s # <<>> /\ \A k \in 1..Len(s) : IsDigit(s[k]) THEN DecimalValue(s) ELSE 0

\* str::split('_'): the pieces between every separator.
RECURSIVE split(_, _)
split(s, sep) ==
    IF \A k \in 1..Len(s) : s[k] # sep THEN <<s>>
    ELSE LET k == CHOOSE j \in 1..Len(s) :
                      s[j] = sep /\ \A m \in 1..(j - 1) : s[m] # sep
         IN  <<SubSeq(s, 1, k - 1)>> \o split(SubSeq(s, k + 1, Len(s)), sep)

\* str::split_once('_').unwrap_or(("", "")): cut at the first separator.
split_once_or_empty(s, sep) ==
    IF \A k \in 1..Len(s) : s[k] # sep THEN <<<<>>, <<>>>>
    ELSE LET k == CHOOSE j \in 1..Len(s) :
                      s[j] = sep /\ \A m \in 1..(j - 1) : s[m] # sep
         IN  <<SubSeq(s, 1, k - 1), SubSeq(s, k + 1, Len(s))>>

\* local_address.parse::<std::net::IpAddr>() succeeds.
parse_ip_ok(addr) == addr \in {"127.0.0.1", "::1"}

\* ------------------------------------------------------------------ configs
\* The fields of Config that the control flow of core.rs reads.
Cfg(id, service, wt, proto, dom, addr) ==
    [id |-> id, service |-> service, workload_type |-> wt, protocol |-> proto,
     domain_enabled |-> dom, local_address |-> addr,
     kubeconfig |-> Some("kubeconfig"), remote_port |-> Some(80)]

SvcA == <<"a">>
SvcB == <<"b">>
SvcBC == <<"b", "_", "c">>

\* A service forward with a hosts entry.
K1 == Cfg(Some(1), Some(SvcA), Some("service"), "tcp", Some(TRUE), Some("127.0.0.1"))
\* The same config with a local_address that is no IP literal.
K1w == Cfg(Some(1), Some(SvcA), Some("service"), "tcp", Some(TRUE), Some("localhost"))
\* A proxy config.
K2 == Cfg(Some(2), Some(SvcB), Some("proxy"), "udp", Some(TRUE), Some("127.0.0.1"))
\* The same config with a service name that holds the key separator.
K2u == Cfg(Some(2), Some(SvcBC), Some("proxy"), "udp", Some(TRUE), Some("127.0.0.1"))
\* An ephemeral config as parse_configs produces it: no id.
KE == Cfg(None, Some(SvcA), Some("service"), "tcp", None, None)

\* A config with workload_type pod: a target label and no service.
KP == Cfg(Some(1), None, Some("pod"), "tcp", None, None)

\* kftray_commons::config::get_configs(): the stored configs.
StoredConfigs == <<K1, K2>>

\* The configs the callers pass to start_port_forward and to
\* deploy_and_forward_pod: the stored ones in every variant,
StartPool == {K1, K1w, K2, K2u}
DeployPool == {K2}
\* those with plain service names,
PlainStartPool == {K1, K1w, K2}
\* those with a separator in a service name,
UnderscoreStartPool == {K1, K2u}
\* a batch of two for deploy_and_forward_pod,
BatchStartPool == {K1}
BatchDeployPool == {K1, K2}
\* and those with the ephemeral one and the pod one among them.
EphemeralStartPool == {K1, K2, KE, KP}
EphemeralDeployPool == {K2, KE}

\* Config::id of the stored configs and the default id 0.
ConfigIds == {0} \cup {Unwrap(StoredConfigs[n].id) : n \in 1..Len(StoredConfigs)}

\* Batches: at most MaxBatch configs, no stored identity twice.
RECURSIVE SeqsUpTo(_, _)
SeqsUpTo(S, n) ==
    IF n = 0 THEN {<<>>}
    ELSE LET shorter == SeqsUpTo(S, n - 1)
         IN  shorter \cup {Append(s, x) : s \in {t \in shorter : Len(t) = n - 1}, x \in S}

Batches(pool) ==
    {b \in SeqsUpTo(pool, MaxBatch) :
        \A m, n \in 1..Len(b) :
            (m # n /\ IsSome(b[m].id) /\ IsSome(b[n].id)) => b[m].id # b[n].id}

\* -------------------------------------------------------------------- state
VARIABLES
    CHILD_PROCESSES,  \* the registry: composite key -> task handle
    live,             \* handles of the supervised tasks that are running
    config_state,     \* the state store: config_id -> is_running
    hosts,            \* the markers of the blocks in the hosts file
    pods,             \* the helper pods in the cluster: name -> config_id label
    username,         \* whoami::username() of the process
    call,             \* per caller: the entry point it runs and its locals
    calls,            \* calls begun so far
    faults            \* failures of the collaborators so far

vars == <<CHILD_PROCESSES, live, config_state, hosts, pods, username, call,
          calls, faults>>

\* A step in which the collaborators fail `cost` times.
Fails(cost) == faults + cost <= MaxFaults /\ faults' = faults + cost
Cost(failed) == IF failed THEN 1 ELSE 0

Procs == {1, 2}

\* Result<T, String>: val is the response list, or the error texts.
Ok(v) == [ok |-> TRUE, val |-> v]
Err(e) == [ok |-> FALSE, val |-> e]

\* CustomResponse: the fields the callers of core.rs tell responses apart by.
CustomResponse(id, service, status, stderr) ==
    [id |-> id, service |-> service, status |-> status, stderr |-> stderr]

\* ----------------------------------------------------------------- registry
\* A registry whose insert loses the new entry.
insert_lost(map, key, handle) == map

\* HashMap::insert: a present key is overwritten and its old handle dropped.
insert(map, key, handle) ==
    [k \in (DOMAIN map) \cup {key} |-> IF k = key THEN handle ELSE map[k]]

\* A remove that leaves the entry in the map.
remove_kept(map, key) == map

\* HashMap::remove.
remove(map, key) == [k \in (DOMAIN map) \ {key} |-> map[k]]

\* A drain that leaves the entries where they are.
drain_kept(map) == map

\* HashMap::drain(): what is left in the registry.
drain(map) == [k \in {} |-> 0]

\* The handles a map holds.
Handles(map) == {map[k] : k \in DOMAIN map}

\* JoinHandle::abort: the task stops running.  A JoinHandle that is dropped
\* without abort detaches its task, which keeps running.
abort(running, handle) == running \ {handle}

\* A removal that drops the handle it returns without abort().
abort_removed_skipped(running, map, key) == running

\* remove(key) followed by abort() of the handle it returns, if any.
abort_removed(running, map, key) ==
    IF key \in DOMAIN map THEN abort(running, map[key]) ELSE running

\* ConfigState upsert.
update_config_state(store, config_id, is_running) ==
    [k \in (DOMAIN store) \cup {config_id} |->
        IF k = config_id THEN is_running ELSE store[k]]

\* HostsBuilder::write: a builder with entries installs (replaces) the block of
\* its marker, a builder without entries removes it.
hosts_write(file, marker, has_entries) ==
    IF has_entries THEN file \cup {marker} ELSE file \ {marker}

\* format!("{}_{}", id, service)
format_key(id, service) == Concat(<<to_string(id), <<"_">>, service>>)

\* start_port_forward's handle_key of a config whose id is present.
handle_key(config) == format_key(Unwrap(config.id), UnwrapOr(config.service, <<>>))

\* format!("kftray custom host for {} - {}", service, id)
hostfile_comment(service, id_str) ==
    Concat(<<<<"kftray custom host for ">>, service, <<" - ">>, id_str>>)

\* key.starts_with(&format!("{}_", config_id))
has_id_prefix(key, config_id) == starts_with(key, config_id \o <<"_">>)

\* configs.iter().find(|c| c.id == Some(id)): the stored config of an id.
find_config(id) ==
    LET found == {n \in 1..Len(StoredConfigs) : StoredConfigs[n].id = Some(id)}
    IN  IF found = {} THEN None
        ELSE Some(StoredConfigs[CHOOSE n \in found : \A m \in found : n <= m])

\* The handle the transport hands out next: one no task and no caller holds.
FreshHandle ==
    LET used == live \cup Handles(CHILD_PROCESSES)
                     \cup UNION {call[q].obtained : q \in Procs}
    IN  CHOOSE h \in 1..(Cardinality(used) + 1) :
            h \notin used /\ \A g \in 1..(h - 1) : g \in used

\* ------------------------------------------------------------- call frames
Idle ==
    [op |-> "idle", pc |-> "idle",
     \* start_port_forward
     configs |-> <<>>, protocol |-> "", i |-> 0, responses |-> <<>>,
     errors |-> <<>>, child_handles |-> <<>>, rolled |-> 0,
     start_result |-> None,
     \* stop_port_forward
     config_id |-> <<>>, composite_key |-> None, pending |-> None,
     \* stop_all_port_forward
     handle_map |-> <<>>, todo |-> {}, running_configs_state |-> {},
     \* deploy_and_forward_pod
     dconfigs |-> <<>>, j |-> 0, hashed_name |-> <<>>, dresponses |-> <<>>,
     \* history: the handles the transport handed to this call, the ids whose
     \* state write succeeded, the pods this call created, and those of them
     \* the cluster refused to delete
     obtained |-> {}, reconciled |-> {}, created |-> {}, refused |-> {},
     \* parse_configs
     configs_str |-> <<>>, ports |-> <<>>, discovered |-> <<>>,
     \* retrieve_service_configs: the namespaces of the cluster, those whose
     \* future has not completed, the accumulator of the fold, and (history)
     \* the namespaces whose services were listed
     namespaces |-> <<>>, waiting |-> {}, acc |-> None, listed |-> {},
     \* history: whether this call has fired CANCEL_NOTIFIER, and the
     \* collaborators it used before it did
     notified |-> FALSE, early |-> {},
     \* history: the handles this call took out of the registry
     taken |-> {},
     \* the value the entry point returned
     result |-> None]

\* The locals of start_port_forward at its first line, in frame c.
start_frame(c, configs, protocol) ==
    [c EXCEPT !.configs = configs, !.protocol = protocol, !.i = 1,
              !.responses = <<>>, !.errors = <<>>, !.child_handles = <<>>,
              !.rolled = 0, !.start_result = None, !.obtained = {},
              !.reconciled = {},
              !.pc = IF configs = <<>> THEN "start_finish" ELSE "start_forward"]

\* Where the for loop of start_port_forward goes after config number i.
start_next_pc(c) ==
    IF c.i + 1 > Len(c.configs) THEN "start_finish" ELSE "start_forward"

\* ------------------------------------------------------ start_port_forward
StartProtocols == {"tcp"}

BeginStart(p, pools) ==
    /\ call[p].op = "idle"
    /\ calls < MaxCalls
    /\ \E b \in Batches(pools.start), protocol \in StartProtocols :
           call' = [call EXCEPT ![p] =
                       start_frame([Idle EXCEPT !.op = "start"], b, protocol)]
    /\ calls' = calls + 1
    /\ UNCHANGED <<CHILD_PROCESSES, live, config_state, hosts, pods, username, faults>>

\* Lines 67-138 and 216-247: PortForward::new, the transport start, and the
\* insertion of the handle it returns.
start_forward(p, env) ==
    LET c == call[p]
        config == c.configs[c.i]
        h == FreshHandle
    IN  /\ c.pc = "start_forward"
        /\ \E o \in env.transport :
             IF o = "ok" /\ c.protocol \in {"tcp", "udp"}
             THEN /\ live' = live \cup {h}
                  /\ IF IsSome(config.id)
                     THEN /\ CHILD_PROCESSES' =
                                 insert(CHILD_PROCESSES, handle_key(config), h)
                          /\ call' = [call EXCEPT ![p] =
                                [c EXCEPT
                                   !.child_handles = Append(@, handle_key(config)),
                                   !.obtained = @ \cup {h},
                                   !.pc = IF UnwrapOr(config.domain_enabled, FALSE)
                                          THEN "start_hosts" ELSE "start_state"]]
                     ELSE \* config.id.unwrap() panics; the handle is dropped
                          /\ CHILD_PROCESSES' = CHILD_PROCESSES
                          /\ call' = [call EXCEPT ![p] =
                                [c EXCEPT !.obtained = @ \cup {h},
                                          !.pc = "panicked"]]
             ELSE /\ call' = [call EXCEPT ![p] =
                        [c EXCEPT !.errors = Append(@, "forward"),
                                  !.i = @ + 1,
                                  !.pc = start_next_pc(c)]]
                  /\ UNCHANGED <<CHILD_PROCESSES, live>>
        /\ UNCHANGED <<config_state, hosts, pods, username, calls, faults>>

\* Lines 140-186: the hosts block of a config with domain_enabled.
start_hosts(p, env) ==
    LET c == call[p]
        config == c.configs[c.i]
        key == handle_key(config)
        marker == hostfile_comment(UnwrapOr(config.service, <<>>),
                                   to_string(UnwrapOr(config.id, 0)))
        wanted == IsSome(config.service) /\ IsSome(config.local_address)
        parsed == wanted /\ parse_ip_ok(Unwrap(config.local_address))
    IN  /\ c.pc = "start_hosts"
        /\ \E written \in env.hosts :
             IF parsed /\ ~written
             THEN \* the write failed: this forward is removed and aborted
                  /\ Fails(1)
                  /\ CHILD_PROCESSES' = remove(CHILD_PROCESSES, key)
                  /\ live' = abort_removed(live, CHILD_PROCESSES, key)
                  /\ hosts' = hosts
                  /\ call' = [call EXCEPT ![p] =
                        [c EXCEPT !.errors = Append(@, "hostfile"),
                                  !.i = @ + 1,
                                  !.pc = start_next_pc(c)]]
             ELSE /\ hosts' = IF parsed THEN hosts_write(hosts, marker, TRUE)
                              ELSE hosts
                  /\ call' = [call EXCEPT ![p] =
                        [c EXCEPT !.errors = IF wanted /\ ~parsed
                                             THEN Append(@, "invalid_ip") ELSE @,
                                  !.pc = "start_state"]]
                  /\ UNCHANGED <<CHILD_PROCESSES, live, faults>>
        /\ UNCHANGED <<config_state, pods, username, calls>>

\* Lines 188-214: is_running = true, then the response.
start_state(p, env) ==
    LET c == call[p]
        config == c.configs[c.i]
        id == Unwrap(config.id)
    IN  /\ c.pc = "start_state"
        /\ \E stored \in env.store :
             /\ Fails(Cost(~stored))
             /\ config_state' = IF stored
                                THEN update_config_state(config_state, id, TRUE)
                                ELSE config_state
             /\ call' = [call EXCEPT ![p] =
                   IF IsSome(config.service)
                   THEN [c EXCEPT
                           !.reconciled = IF stored THEN @ \cup {id} ELSE @,
                           !.responses = Append(@,
                               CustomResponse(config.id, Unwrap(config.service),
                                              0, <<>>)),
                           !.i = @ + 1,
                           !.pc = start_next_pc(c)]
                   ELSE \* config.service.unwrap() panics
                        [c EXCEPT !.reconciled = IF stored THEN @ \cup {id} ELSE @,
                                  !.pc = "panicked"]]
        /\ UNCHANGED <<CHILD_PROCESSES, live, hosts, pods, username, calls>>

\* A return value whose responses come last config first.
start_value_reversed(c) ==
    IF c.errors # <<>> THEN Err(c.errors)
    ELSE Ok([n \in 1..Len(c.responses) |-> c.responses[Len(c.responses) + 1 - n]])

\* What start_port_forward returns once the rollback is through.
start_value(c) == IF c.errors # <<>> THEN Err(c.errors) ELSE Ok(c.responses)

\* Lines 250-267: the rollback of child_handles, one key per step, and the
\* return (to the caller, or into deploy_and_forward_pod).
start_finish(p) ==
    LET c == call[p]
        key == c.child_handles[c.rolled + 1]
    IN  /\ c.pc = "start_finish"
        /\ IF c.errors # <<>> /\ c.rolled < Len(c.child_handles)
           THEN /\ CHILD_PROCESSES' = remove(CHILD_PROCESSES, key)
                /\ live' = abort_removed(live, CHILD_PROCESSES, key)
                /\ call' = [call EXCEPT ![p] = [c EXCEPT !.rolled = @ + 1]]
           ELSE /\ call' = [call EXCEPT ![p] =
                      [c EXCEPT
                         !.start_result = Some(start_value(c)),
                         !.result = IF c.op = "start" THEN Some(start_value(c))
                                    ELSE @,
                         !.pc = IF c.op = "start" THEN "done"
                                ELSE "deploy_started"]]
                /\ UNCHANGED <<CHILD_PROCESSES, live>>
        /\ UNCHANGED <<config_state, hosts, pods, username, calls, faults>>

\* ------------------------------------------------------- stop_port_forward
\* The config_id strings the callers pass.
StopIds == {to_string(Unwrap(StoredConfigs[n].id)) : n \in 1..Len(StoredConfigs)}

\* The locals of stop_port_forward at its first line, in frame c.
stop_frame(c, config_id) ==
    [c EXCEPT !.config_id = config_id, !.composite_key = None,
              !.pending = None, !.pc = "stop_find"]

BeginStop(p) ==
    /\ call[p].op = "idle"
    /\ calls < MaxCalls
    /\ \E config_id \in StopIds :
           call' = [call EXCEPT ![p] =
                       stop_frame([Idle EXCEPT !.op = "stop"], config_id)]
    /\ calls' = calls + 1
    /\ UNCHANGED <<CHILD_PROCESSES, live, config_state, hosts, pods, username, faults>>

\* A search that takes any key of the registry for a match.
find_keys_unfiltered(map, config_id) ==
    IF DOMAIN map = {} THEN {None} ELSE {Some(k) : k \in DOMAIN map}

\* keys().find(..): the keys the search may return; the iteration order of
\* the HashMap decides between several.
find_keys(map, config_id) ==
    LET matching == {k \in DOMAIN map : has_id_prefix(k, config_id)}
    IN  IF matching = {} THEN {None} ELSE {Some(k) : k \in matching}

\* Lines 508-517: the cancel notification and the search for the key.
stop_find(p) ==
    LET c == call[p]
    IN  /\ c.pc = "stop_find"
        /\ \E found \in find_keys(CHILD_PROCESSES, c.config_id) :
               call' = [call EXCEPT ![p] =
                   [c EXCEPT !.notified = TRUE,
                             !.composite_key = found,
                             !.pending = IF IsSome(found) THEN None
                                         ELSE Some(Err(<<"not_found">>)),
                             !.pc = IF IsSome(found) THEN "stop_remove"
                                    ELSE "stop_state"]]
        /\ UNCHANGED <<CHILD_PROCESSES, live, config_state, hosts, pods,
                       username, calls, faults>>

\* Lines 519-529: the key is removed and the handle it held aborted.
stop_remove(p) ==
    LET c == call[p]
        key == Unwrap(c.composite_key)
    IN  /\ c.pc = "stop_remove"
        /\ CHILD_PROCESSES' = remove(CHILD_PROCESSES, key)
        /\ live' = abort_removed(live, CHILD_PROCESSES, key)
        /\ call' = [call EXCEPT ![p] =
               [c EXCEPT !.taken = IF key \in DOMAIN CHILD_PROCESSES
                                   THEN {CHILD_PROCESSES[key]} ELSE {},
                         !.pc = "stop_hosts"]]
        /\ UNCHANGED <<config_state, hosts, pods, username, calls, faults>>

\* Lines 531-568 and 592: get_configs and the removal of the hosts block.
stop_hosts(p, env) ==
    LET c == call[p]
        parts == split_once_or_empty(Unwrap(c.composite_key), "_")
        config_id_str == parts[1]
        service_name == parts[2]
        config == find_config(parse_i64_or_default(config_id_str))
        wanted == IsSome(config) /\ UnwrapOr(Unwrap(config).domain_enabled, FALSE)
        marker == hostfile_comment(service_name, config_id_str)
    IN  /\ c.pc = "stop_hosts"
        /\ \E loaded \in env.db, written \in env.hosts :
             /\ Fails(Cost(~loaded \/ (wanted /\ ~written)))
             /\ hosts' = IF loaded /\ wanted /\ written
                         THEN hosts_write(hosts, marker, FALSE) ELSE hosts
             /\ call' = [call EXCEPT ![p] =
                   [c EXCEPT
                      !.pending =
                          IF ~loaded THEN Some(Err(<<"configs">>))
                          ELSE IF wanted /\ ~written THEN Some(Err(<<"hostfile">>))
                          ELSE Some(Ok(<<CustomResponse(None, service_name, 0, <<>>)>>)),
                      !.pc = "stop_state"]]
        /\ UNCHANGED <<CHILD_PROCESSES, live, config_state, pods, username, calls>>

\* The id whose state stop_port_forward writes: the one parsed from the key
\* (lines 532, 557, 572), or from the argument when no key was found or the
\* configs could not be read (lines 593, 606).
stop_state_id(c) ==
    IF IsSome(c.composite_key) /\ (Unwrap(c.pending).ok \/ Unwrap(c.pending).val # <<"configs">>)
    THEN parse_i64_or_default(split_once_or_empty(Unwrap(c.composite_key), "_")[1])
    ELSE parse_i64_or_default(c.config_id)

\* A stop_port_forward that turns a failed state write into its error.
stop_state_propagating(p, env) ==
    LET c == call[p]
        id == stop_state_id(c)
    IN  /\ c.pc = "stop_state"
        /\ \E stored \in env.store :
             /\ Fails(Cost(~stored))
             /\ config_state' = IF stored
                                THEN update_config_state(config_state, id, FALSE)
                                ELSE config_state
             /\ call' = [call EXCEPT ![p] =
                   [c EXCEPT !.reconciled = IF stored THEN @ \cup {id} ELSE @,
                             !.result = IF stored THEN c.pending
                                        ELSE Some(Err(<<"state">>)),
                             !.pc = "done"]]
        /\ UNCHANGED <<CHILD_PROCESSES, live, hosts, pods, username, calls>>

\* Lines 555-563, 570-577, 593-602, 606-619: is_running = false on every
\* path, then the return.
stop_state(p, env) ==
    LET c == call[p]
        id == stop_state_id(c)
    IN  /\ c.pc = "stop_state"
        /\ \E stored \in env.store :
             /\ Fails(Cost(~stored))
             /\ config_state' = IF stored
                                THEN update_config_state(config_state, id, FALSE)
                                ELSE config_state
             /\ call' = [call EXCEPT ![p] =
                   [c EXCEPT !.reconciled = IF stored THEN @ \cup {id} ELSE @,
                             !.result = c.pending,
                             !.pc = "done"]]
        /\ UNCHANGED <<CHILD_PROCESSES, live, hosts, pods, username, calls>>

\* --------------------------------------------------- stop_all_port_forward
BeginStopAll(p) ==
    /\ call[p].op = "idle"
    /\ calls < MaxCalls
    /\ call' = [call EXCEPT ![p] =
                   [Idle EXCEPT !.op = "stop_all", !.pc = "stop_all_drain"]]
    /\ calls' = calls + 1
    /\ UNCHANGED <<CHILD_PROCESSES, live, config_state, hosts, pods, username, faults>>

\* Lines 272-278: the cancel notification and the drain of the registry.
stop_all_drain(p) ==
    LET c == call[p]
    IN  /\ c.pc = "stop_all_drain"
        /\ CHILD_PROCESSES' = drain(CHILD_PROCESSES)
        /\ call' = [call EXCEPT ![p] =
               [c EXCEPT !.notified = TRUE,
                         !.handle_map = CHILD_PROCESSES,
                         !.taken = Handles(CHILD_PROCESSES),
                         !.todo = DOMAIN CHILD_PROCESSES,
                         !.pc = "stop_all_load"]]
        /\ UNCHANGED <<live, config_state, hosts, pods, username, calls, faults>>

\* The ids get_configs_state() reports as running.
running_ids(store) == {id \in DOMAIN store : store[id]}

\* Where stop_all_port_forward goes once a handle is dealt with.
stop_all_next_pc(todo) == IF todo = {} THEN "stop_all_pods" ELSE "stop_all_abort"

\* Lines 280-300: get_configs_state and get_configs; either error returns at
\* once, and the drained handles are dropped.
stop_all_load(p, env) ==
    LET c == call[p]
    IN  /\ c.pc = "stop_all_load"
        /\ \E states \in env.db, configs \in env.db :
             /\ Fails(Cost(~states \/ ~configs))
             /\ call' = [call EXCEPT ![p] =
                   IF states /\ configs
                   THEN [c EXCEPT
                           !.running_configs_state = running_ids(config_state),
                           !.pc = stop_all_next_pc(c.todo)]
                   ELSE [c EXCEPT
                           !.result = Some(Err(IF states THEN <<"configs">>
                                               ELSE <<"config_states">>)),
                           !.pc = "done"]]
        /\ UNCHANGED <<CHILD_PROCESSES, live, config_state, hosts, pods,
                       username, calls>>

\* Lines 309-392: one drained handle: the key is split, the hosts block of
\* its config removed, the handle aborted; every path yields a response.
stop_all_abort(p, env) ==
    LET c == call[p]
    IN  /\ c.pc = "stop_all_abort"
        /\ \E composite_key \in c.todo, written \in env.hosts :
             LET ids == split(composite_key, "_")
                 wellformed == Len(ids) = 2
                 config_id_str == ids[1]
                 service_id == ids[2]
                 config_id_parsed == parse_i64_or_default(config_id_str)
                 config == find_config(config_id_parsed)
                 wanted == /\ wellformed
                           /\ IsSome(config)
                           /\ UnwrapOr(Unwrap(config).domain_enabled, FALSE)
                 marker == hostfile_comment(service_id, config_id_str)
                 aborts == wellformed /\ (wanted => written)
                 response ==
                     IF ~wellformed
                     THEN CustomResponse(None, <<>>, 1, <<"Invalid composite key format">>)
                     ELSE IF ~aborts
                     THEN CustomResponse(Some(config_id_parsed), service_id, 1, <<"hostfile">>)
                     ELSE CustomResponse(Some(config_id_parsed), service_id, 0, <<>>)
             IN  /\ Fails(Cost(wanted /\ ~written))
                 /\ hosts' = IF wanted /\ written
                             THEN hosts_write(hosts, marker, FALSE) ELSE hosts
                 /\ live' = IF aborts THEN abort(live, c.handle_map[composite_key])
                            ELSE live
                 /\ call' = [call EXCEPT ![p] =
                       [c EXCEPT !.responses = Append(@, response),
                                 !.todo = @ \ {composite_key},
                                 !.pc = stop_all_next_pc(c.todo \ {composite_key})]]
        /\ UNCHANGED <<CHILD_PROCESSES, config_state, pods, username, calls>>

\* format!("kftray-forward-{}", username): the prefix of the stop paths.
pod_prefix(user) == <<"kftray-forward-">> \o user

\* Lines 394-404: the stored configs whose helper pods are looked for.
pod_cleanup_ids(running) ==
    {UnwrapOr(StoredConfigs[n].id, 0) : n \in
        {m \in 1..Len(StoredConfigs) :
            /\ UnwrapOr(StoredConfigs[m].id, 0) \in running
            /\ \/ StoredConfigs[m].protocol = "udp"
               \/ StoredConfigs[m].workload_type = Some("proxy")
            /\ IsSome(StoredConfigs[m].kubeconfig)}}

\* Lines 416-428: the pods labelled config_id=<id> whose name has the prefix.
labelled_pods(cluster, label, prefix) ==
    {name \in DOMAIN cluster : cluster[name] = label /\ starts_with(name, prefix)}

\* The outcomes of deleting a set of pods: with a reachable cluster all go,
\* otherwise any of them may stay.
delete_outcomes(env, names) == IF FALSE \in env.cluster THEN SUBSET names ELSE {names}

\* Lines 394-473: the helper pods of the running udp and proxy configs are
\* deleted.
stop_all_pods(p, env) ==
    LET c == call[p]
        wanted == UNION {labelled_pods(pods, to_string(id), pod_prefix(username)) :
                            id \in pod_cleanup_ids(c.running_configs_state)}
    IN  /\ c.pc = "stop_all_pods"
        /\ \E deleted \in delete_outcomes(env, wanted) :
             /\ Fails(Cardinality(wanted \ deleted))
             /\ pods' = [name \in (DOMAIN pods) \ deleted |-> pods[name]]
        /\ call' = [call EXCEPT ![p] = [c EXCEPT !.pc = "stop_all_update"]]
        /\ UNCHANGED <<CHILD_PROCESSES, live, config_state, hosts, username, calls>>

\* The writes of a set of ids that succeed.
write_outcomes(env, ids) == IF FALSE \in env.store THEN SUBSET ids ELSE {ids}

RECURSIVE update_all(_, _, _)
update_all(store, ids, is_running) ==
    IF ids = {} THEN store
    ELSE LET id == CHOOSE x \in ids : TRUE
         IN  update_all(update_config_state(store, id, is_running),
                        ids \ {id}, is_running)

\* Lines 475-504: is_running = false for every stored config, then the
\* responses are returned.
stop_all_update(p, env) ==
    LET c == call[p]
        ids == {UnwrapOr(StoredConfigs[n].id, 0) : n \in 1..Len(StoredConfigs)}
    IN  /\ c.pc = "stop_all_update"
        /\ \E stored \in write_outcomes(env, ids) :
             /\ Fails(Cardinality(ids \ stored))
             /\ config_state' = update_all(config_state, stored, FALSE)
             /\ call' = [call EXCEPT ![p] =
                   [c EXCEPT !.reconciled = stored,
                             !.result = Some(Ok(c.responses)),
                             !.pc = "done"]]
        /\ UNCHANGED <<CHILD_PROCESSES, live, hosts, pods, username, calls>>

\* -------------------------------------------------- deploy_and_forward_pod
UpperChars ==
    <<"A", "B", "C", "D", "E", "F", "G", "H", "I", "J", "K", "L", "M",
      "N", "O", "P", "Q", "R", "S", "T", "U", "V", "W", "X", "Y", "Z">>
LowerChars ==
    <<"a", "b", "c", "d", "e", "f", "g", "h", "i", "j", "k", "l", "m",
      "n", "o", "p", "q", "r", "s", "t", "u", "v", "w", "x", "y", "z">>

char_to_lowercase(ch) ==
    IF \E k \in 1..Len(UpperChars) : UpperChars[k] = ch
    THEN LowerChars[CHOOSE k \in 1..Len(UpperChars) : UpperChars[k] = ch]
    ELSE ch

\* str::to_lowercase
to_lowercase(s) == [k \in 1..Len(s) |-> char_to_lowercase(s[k])]

is_alphanumeric(ch) ==
    \/ \E k \in 1..Len(UpperChars) : UpperChars[k] = ch
    \/ \E k \in 1..Len(LowerChars) : LowerChars[k] = ch
    \/ IsDigit(ch)

\* chars().filter(..).collect()
RECURSIVE filter_alphanumeric(_)
filter_alphanumeric(s) ==
    IF s = <<>> THEN <<>>
    ELSE (IF is_alphanumeric(Head(s)) THEN <<Head(s)>> ELSE <<>>)
         \o filter_alphanumeric(Tail(s))

\* Lines 660-661: the user name as it goes into the pod name.
clean_username(user) == filter_alphanumeric(to_lowercase(user))

\* The "<unix-seconds>-<6 random characters>" endings of pod names.
PodSuffixes == <<"1700000000-k3x9qa", "1700000001-w7m2zb">>

\* Lines 667-671: the name of the helper pod.
hashed_name_of(user, protocol, suffix) ==
    to_lowercase(Concat(<<<<"kftray-forward-">>, clean_username(user), <<"-">>,
                          <<protocol>>, <<"-">>, <<suffix>>>>))

\* Lines 673-675: the config_id label of the helper pod.
config_id_label(config) ==
    IF IsSome(config.id) THEN to_string(Unwrap(config.id)) ELSE <<"default">>

\* The clock and the random generator give a name no pod and no forward has.
FreshSuffixes(user, protocol) ==
    {n \in 1..Len(PodSuffixes) :
        LET name == hashed_name_of(user, protocol, PodSuffixes[n])
        IN  /\ name \notin DOMAIN pods
            /\ \A k \in DOMAIN CHILD_PROCESSES : ~starts_with(split_once_or_empty(k, "_")[2], name)}

BeginDeploy(p, pools) ==
    /\ call[p].op = "idle"
    /\ calls < MaxCalls
    /\ \E b \in Batches(pools.deploy) :
           call' = [call EXCEPT ![p] =
                       [Idle EXCEPT !.op = "deploy", !.dconfigs = b, !.j = 1,
                                    !.result = IF b = <<>> THEN Some(Ok(<<>>)) ELSE None,
                                    !.pc = IF b = <<>> THEN "done"
                                           ELSE "deploy_create"]]
    /\ calls' = calls + 1
    /\ UNCHANGED <<CHILD_PROCESSES, live, config_state, hosts, pods, username, faults>>

\* A cleanup that never issues the delete.
delete_pod_skipped(cluster, name, deleted) == cluster

\* pods.delete(..) of a pod, whose result the code ignores.
delete_pod(cluster, name, deleted) ==
    IF deleted THEN [n \in (DOMAIN cluster) \ {name} |-> cluster[n]] ELSE cluster

\* Lines 636-708 and 759: the client, the manifest and pods.create.
deploy_create(p, env) ==
    LET c == call[p]
        config == c.dconfigs[c.j]
        protocol == config.protocol
        fresh == FreshSuffixes(username, protocol)
        name == hashed_name_of(username, protocol,
                               PodSuffixes[CHOOSE n \in fresh : \A m \in fresh : n <= m])
        panics == ~IsSome(config.service) \/ ~IsSome(config.remote_port)
    IN  /\ c.pc = "deploy_create"
        /\ \E o \in env.create :
             LET created == o = "ok" /\ ~panics /\ fresh # {}
             IN  /\ Fails(Cost(o # "ok" /\ (o = "client" \/ ~panics)))
                 /\ pods' = IF created
                            THEN [n \in (DOMAIN pods) \cup {name} |->
                                    IF n = name THEN config_id_label(config)
                                    ELSE pods[n]]
                            ELSE pods
                 /\ call' = [call EXCEPT ![p] =
                       IF created
                       THEN [c EXCEPT !.hashed_name = name,
                                      !.created = @ \cup {name},
                                      !.pc = "deploy_wait"]
                       ELSE IF o # "client" /\ panics
                       THEN [c EXCEPT !.pc = "panicked"]
                       ELSE [c EXCEPT !.result = Some(Err(<<o>>)), !.pc = "done"]]
        /\ UNCHANGED <<CHILD_PROCESSES, live, config_state, hosts, username, calls>>

\* A deploy_and_forward_pod that, when a pod does not become ready, deletes
\* it and goes on with the next config of the batch.
deploy_wait_continuing(p, env) ==
    LET c == call[p]
        config == [c.dconfigs[c.j] EXCEPT !.service = Some(c.hashed_name)]
        protocol == config.protocol
        more == c.j < Len(c.dconfigs)
    IN  /\ c.pc = "deploy_wait"
        /\ \E ready \in env.cluster, deleted \in env.cluster :
             IF ready /\ protocol \in {"udp", "tcp"}
             THEN /\ Fails(0)
                  /\ pods' = pods
                  /\ call' = [call EXCEPT ![p] = start_frame(c, <<config>>, protocol)]
             ELSE /\ Fails(Cost(~ready) + Cost(~deleted))
                  /\ pods' = delete_pod(pods, c.hashed_name, deleted)
                  /\ call' = [call EXCEPT ![p] =
                        [c EXCEPT !.result = IF more THEN None ELSE Some(Err(<<"wait">>)),
                                  !.refused = IF deleted THEN @
                                              ELSE @ \cup {c.hashed_name},
                                  !.j = IF more THEN @ + 1 ELSE @,
                                  !.pc = IF more THEN "deploy_create" ELSE "done"]]
        /\ UNCHANGED <<CHILD_PROCESSES, live, config_state, hosts, username, calls>>

\* Lines 710-742: the wait for the pod, then start_port_forward for the
\* config with the pod as its service.
deploy_wait(p, env) ==
    LET c == call[p]
        config == [c.dconfigs[c.j] EXCEPT !.service = Some(c.hashed_name)]
        protocol == config.protocol
    IN  /\ c.pc = "deploy_wait"
        /\ \E ready \in env.cluster, deleted \in env.cluster :
             IF ready /\ protocol \in {"udp", "tcp"}
             THEN /\ Fails(0)
                  /\ pods' = pods
                  /\ call' = [call EXCEPT ![p] = start_frame(c, <<config>>, protocol)]
             ELSE /\ Fails(Cost(~ready) + Cost(~deleted))
                  /\ pods' = delete_pod(pods, c.hashed_name, deleted)
                  /\ call' = [call EXCEPT ![p] =
                        [c EXCEPT !.result = Some(Err(IF ready THEN <<"unsupported">>
                                                      ELSE <<"wait">>)),
                                  !.refused = IF deleted THEN @
                                              ELSE @ \cup {c.hashed_name},
                                  !.pc = "done"]]
        /\ UNCHANGED <<CHILD_PROCESSES, live, config_state, hosts, username, calls>>

\* Lines 744-763: the result of start_port_forward.
deploy_started(p, env) ==
    LET c == call[p]
        started == Unwrap(c.start_result)
        more == c.j < Len(c.dconfigs)
    IN  /\ c.pc = "deploy_started"
        /\ \E deleted \in env.cluster :
             IF started.ok
             THEN /\ Fails(0)
                  /\ pods' = pods
                  /\ call' = [call EXCEPT ![p] =
                        IF started.val = <<>>
                        THEN [c EXCEPT !.result = Some(Err(<<"no_response">>)),
                                       !.pc = "done"]
                        ELSE [c EXCEPT
                                !.dresponses = Append(@, started.val[Len(started.val)]),
                                !.j = @ + 1,
                                !.result = IF more THEN None
                                           ELSE Some(Ok(Append(c.dresponses,
                                                    started.val[Len(started.val)]))),
                                !.pc = IF more THEN "deploy_create" ELSE "done"]]
             ELSE /\ Fails(Cost(~deleted))
                  /\ pods' = delete_pod(pods, c.hashed_name, deleted)
                  /\ call' = [call EXCEPT ![p] =
                        [c EXCEPT !.result = Some(Err(<<"start">>)),
                                  !.refused = IF deleted THEN @
                                              ELSE @ \cup {c.hashed_name},
                                  !.pc = "done"]]
        /\ UNCHANGED <<CHILD_PROCESSES, live, config_state, hosts, username, calls>>

\* ------------------------------------------------------ stop_proxy_forward
\* The first listed pod with the prefix; the order of the list is the
\* cluster's.
first_pods(cluster, label, prefix) ==
    LET matching == labelled_pods(cluster, label, prefix)
    IN  IF matching = {} THEN {None} ELSE {Some(name) : name \in matching}

BeginStopProxy(p) ==
    /\ call[p].op = "idle"
    /\ calls < MaxCalls
    /\ \E config_id \in StopIds :
           call' = [call EXCEPT ![p] =
                       [Idle EXCEPT !.op = "stop_proxy", !.config_id = config_id,
                                    !.pc = "proxy_delete"]]
    /\ calls' = calls + 1
    /\ UNCHANGED <<CHILD_PROCESSES, live, config_state, hosts, pods, username, faults>>

\* Lines 774-844: the config, the client, the pod list and the deletion of
\* the first pod with the prefix; then stop_port_forward.
proxy_delete(p, env) ==
    LET c == call[p]
        config == find_config(parse_i64_or_default(c.config_id))
        known == IsSome(config) /\ IsSome(Unwrap(config).kubeconfig)
    IN  /\ c.pc = "proxy_delete"
        /\ \E got \in env.db, listed \in env.cluster, deleted \in env.cluster,
              pod \in first_pods(pods, c.config_id, pod_prefix(username)) :
             LET reached == known /\ got /\ listed
                 \* get_config, then the client and the pod list
                 contacted == {"store"} \cup (IF known /\ got THEN {"cluster"} ELSE {})
                 failed == ~reached \/ (IsSome(pod) /\ ~deleted)
             IN  /\ Fails(Cost(known /\ ~(got /\ listed))
                           + Cost(reached /\ IsSome(pod) /\ ~deleted))
                 /\ pods' = IF reached /\ IsSome(pod)
                            THEN delete_pod(pods, Unwrap(pod), deleted) ELSE pods
                 /\ call' = [call EXCEPT ![p] =
                       IF failed
                       THEN [c EXCEPT !.result = Some(Err(IF reached THEN <<"delete">>
                                                          ELSE <<"lookup">>)),
                                      !.early = contacted,
                                      !.pc = "done"]
                       ELSE stop_frame([c EXCEPT !.early = contacted], c.config_id)]
        /\ UNCHANGED <<CHILD_PROCESSES, live, config_state, hosts, username, calls>>

\* ----------------------------------------------------------- parse_configs
\* The widths of the integer types of parse_configs.
U16Max == 65535
I32Max == 2147483647
U16Modulus == 65536

\* str::trim for the blanks of the model.
RECURSIVE trim(_)
trim(s) ==
    IF s # <<>> /\ Head(s) = " " THEN trim(Tail(s))
    ELSE IF s # <<>> /\ s[Len(s)] = " " THEN trim(SubSeq(s, 1, Len(s) - 1))
    ELSE s

\* str::parse for an integer type with the given maximum, on texts without
\* "-" (the separator of the entries): an optional "+", then digits.
parse_up_to(s, max) ==
    LET digits == IF s # <<>> /\ Head(s) = "+" THEN Tail(s) ELSE s
    IN  IF /\ digits # <<>>
           /\ \A k \in 1..Len(digits) : IsDigit(digits[k])
           /\ DecimalValue(digits) <= max
        THEN Some(DecimalValue(digits))
        ELSE None

\* ports.get(name).cloned()
ports_get(ports, name) == IF name \in DOMAIN ports THEN Some(ports[name]) ELSE None

\* `target_port as u16` for the non-negative values of the model.
as_u16(v) == v % U16Modulus

\* Lines 930-953: the closure of filter_map, for one entry of the annotation.
parse_entry(config_str, ports, service_name) ==
    LET parts == split(trim(config_str), "-")
        local_port == parse_up_to(parts[2], U16Max)
        numeric == parse_up_to(parts[3], I32Max)
        target_port == IF IsSome(numeric) THEN numeric ELSE ports_get(ports, parts[3])
    IN  IF Len(parts) # 3 THEN None
        ELSE IF ~IsSome(local_port) THEN None
        ELSE IF ~IsSome(target_port) THEN None
        ELSE Some([id |-> None, service |-> Some(service_name),
                   alias |-> Some(parts[1]), local_port |-> local_port,
                   remote_port |-> Some(as_u16(Unwrap(target_port))),
                   protocol |-> "tcp", workload_type |-> Some("service")])

\* Lines 927-956: split(','), filter_map, collect.
RECURSIVE filter_map_entries(_, _, _)
filter_map_entries(entries, ports, service_name) ==
    IF entries = <<>> THEN <<>>
    ELSE LET parsed == parse_entry(Head(entries), ports, service_name)
         IN  (IF IsSome(parsed) THEN <<Unwrap(parsed)>> ELSE <<>>)
             \o filter_map_entries(Tail(entries), ports, service_name)

parse_configs(configs_str, ports, service_name) ==
    filter_map_entries(split(configs_str, ","), ports, service_name)

\* The entries the annotations of the model are made of.
EntryPool ==
    { <<"w", "-", "8", "0", "-", "8", "0">>,
      <<" ", "v", "-", "8", "1", "-", "8", "1">>,
      <<"w", "-", "8", "0", "-", "h">>,
      <<"w", "-", "8", "0", "-", "x">>,
      <<"w", "-", "8", "0">>,
      <<"w", "-", "x", "-", "8", "0">>,
      <<"w", "-", "8", "0", "-", "7", "0", "0", "0", "0">>,
      <<"w", "-", "7", "0", "0", "0", "0", "-", "8", "0">> }

\* slice::join(","): the annotation of a list of entries.
RECURSIVE join_entries(_)
join_entries(entries) ==
    IF entries = <<>> THEN <<>>
    ELSE IF Len(entries) = 1 THEN entries[1]
    ELSE entries[1] \o <<",">> \o join_entries(Tail(entries))

Annotations == {join_entries(es) : es \in SeqsUpTo(EntryPool, MaxEntries)}

\* The named ports of the annotated service.
PortName == <<"h">>
PortMaps == {[name \in {PortName} |-> 8080], [name \in {} |-> 0]}

BeginParseConfigs(p) ==
    /\ call[p].op = "idle"
    /\ calls < MaxCalls
    /\ \E configs_str \in Annotations, ports \in PortMaps :
           call' = [call EXCEPT ![p] =
                       [Idle EXCEPT !.op = "parse_configs", !.pc = "parse_configs",
                                    !.configs_str = configs_str, !.ports = ports]]
    /\ calls' = calls + 1
    /\ UNCHANGED <<CHILD_PROCESSES, live, config_state, hosts, pods, username, faults>>

\* Lines 923-957: parse_configs returns the configs of the annotation.
parse_configs_apply(p) ==
    LET c == call[p]
    IN  /\ c.pc = "parse_configs"
        /\ call' = [call EXCEPT ![p] =
               [c EXCEPT !.discovered = parse_configs(c.configs_str, c.ports, SvcA),
                         !.result = Some(Ok(<<>>)),
                         !.pc = "done"]]
        /\ UNCHANGED <<CHILD_PROCESSES, live, config_state, hosts, pods, username,
                       calls, faults>>

\* ------------------------------------------------ retrieve_service_configs
\* Lines 959-979: one config per port of the service.  The model's services
\* have at most one port, so the order of the HashMap does not show.
RECURSIVE create_default_configs(_, _)
create_default_configs(service_name, ports) ==
    IF DOMAIN ports = {} THEN <<>>
    ELSE LET name == CHOOSE n \in DOMAIN ports : TRUE
             port == ports[name]
         IN  <<[id |-> None, service |-> Some(service_name),
                alias |-> Some(service_name),
                local_port |-> Some(as_u16(port)),
                remote_port |-> Some(as_u16(port)),
                protocol |-> "tcp", workload_type |-> Some("service")]>>
             \o create_default_configs(service_name,
                                       [n \in (DOMAIN ports) \ {name} |-> ports[n]])

\* Lines 879-902: the configs of the services of one namespace.
RECURSIVE namespace_configs(_)
namespace_configs(services) ==
    IF services = <<>> THEN <<>>
    ELSE LET service == Head(services)
         IN  (IF IsSome(service.annotation)
              THEN parse_configs(Unwrap(service.annotation), service.ports,
                                 service.name)
              ELSE create_default_configs(service.name, service.ports))
             \o namespace_configs(Tail(services))

\* A fold in which the error of one namespace becomes the result.
fold_failing(acc, result) ==
    IF result.ok /\ acc.ok THEN Ok(acc.val \o result.val)
    ELSE IF acc.ok THEN result ELSE acc

\* Lines 908-918: the closure of fold: the configs of a namespace are
\* appended, the error of a namespace is printed and dropped.
fold(acc, result) == IF result.ok THEN Ok(acc.val \o result.val) ELSE acc

\* get_services_with_annotation: name, annotations and ports of a service.
Service(name, annotation, ports) ==
    [name |-> name, annotation |-> annotation, ports |-> ports]

\* The namespaces the clusters of the model are made of: without services,
\* with an annotated service, with a service without the annotation, and
\* with one of each.
NamespacePool ==
    { <<>>,
      <<Service(SvcA, Some(<<"w", "-", "8", "0", "-", "h">>),
                [name \in {PortName} |-> 8080])>>,
      <<Service(SvcB, None, [name \in {PortName} |-> 8080])>>,
      <<Service(SvcBC, Some(<<"w", "-", "8", "0", "-", "7", "0", "0", "0", "0",
                             ",", "v", "-", "8", "1">>),
                [name \in {} |-> 0]),
        Service(SvcA, None, [name \in {PortName} |-> 443])>> }

\* list_all_namespaces: what the cluster may hold.
Clusters == SeqsUpTo(NamespacePool, MaxNamespaces)

BeginRetrieve(p) ==
    /\ call[p].op = "idle"
    /\ calls < MaxCalls
    /\ \E namespaces \in Clusters :
           call' = [call EXCEPT ![p] =
                       [Idle EXCEPT !.op = "retrieve", !.pc = "retrieve_connect",
                                    !.namespaces = namespaces]]
    /\ calls' = calls + 1
    /\ UNCHANGED <<CHILD_PROCESSES, live, config_state, hosts, pods, username, faults>>

\* Lines 854-867 and 906-907: the client and list_all_namespaces, whose
\* errors are returned; then the stream over the namespaces, folded from
\* Ok(Vec::new()).
retrieve_connect(p, env) ==
    LET c == call[p]
    IN  /\ c.pc = "retrieve_connect"
        /\ \E connected \in env.cluster :
             /\ Fails(Cost(~connected))
             /\ call' = [call EXCEPT ![p] =
                   IF ~connected
                   THEN [c EXCEPT !.result = Some(Err(<<"connect">>)), !.pc = "done"]
                   ELSE IF c.namespaces = <<>>
                   THEN [c EXCEPT !.acc = Some(Ok(<<>>)),
                                  !.result = Some(Ok(<<>>)), !.pc = "done"]
                   ELSE [c EXCEPT !.acc = Some(Ok(<<>>)),
                                  !.waiting = 1..Len(c.namespaces),
                                  !.pc = "retrieve_namespace"]]
        /\ UNCHANGED <<CHILD_PROCESSES, live, config_state, hosts, pods, username, calls>>

\* Lines 868-920: the future of one namespace completes (buffer_unordered:
\* in any order) and its result is folded; after the last one the
\* accumulator is returned.
retrieve_namespace(p, env) ==
    LET c == call[p]
    IN  /\ c.pc = "retrieve_namespace"
        /\ \E n \in c.waiting, got \in env.cluster :
             LET result == IF got THEN Ok(namespace_configs(c.namespaces[n]))
                           ELSE Err(<<"services">>)
                 acc == fold(Unwrap(c.acc), result)
                 last == c.waiting = {n}
             IN  /\ Fails(Cost(~got))
                 /\ call' = [call EXCEPT ![p] =
                       [c EXCEPT !.acc = Some(acc),
                                 !.waiting = @ \ {n},
                                 !.listed = IF got THEN @ \cup {n} ELSE @,
                                 !.result = IF last THEN Some(acc) ELSE @,
                                 !.pc = IF last THEN "done" ELSE @]]
        /\ UNCHANGED <<CHILD_PROCESSES, live, config_state, hosts, pods, username, calls>>

\* The caller takes the result (or the panic unwinds) and is free again.
Return(p) ==
    /\ call[p].pc \in {"done", "panicked"}
    /\ call' = [call EXCEPT ![p] = Idle]
    /\ UNCHANGED <<CHILD_PROCESSES, live, config_state, hosts, pods, username, calls, faults>>

\* ------------------------------------------------------------ environments
\* The outcomes of the external collaborators: every one the code handles,
Faulty ==
    [transport |-> {"ok", "err"}, hosts |-> BOOLEAN, store |-> BOOLEAN,
     db |-> BOOLEAN, cluster |-> BOOLEAN,
     create |-> {"ok", "client", "manifest", "create"}]
\* and those of a run in which only the transport may fail.
Reliable ==
    [transport |-> {"ok", "err"}, hosts |-> {TRUE}, store |-> {TRUE},
     db |-> {TRUE}, cluster |-> {TRUE}, create |-> {"ok"}]

\* Runs in which only the reads of the stores may fail,
Unreadable == [Reliable EXCEPT !.db = BOOLEAN]
\* and runs in which only the writes of the hosts file may fail.
Unwritable == [Reliable EXCEPT !.hosts = BOOLEAN]

\* whoami::username(): a name of lower-case letters,
Users == {<<"b", "o">>}
\* and the names an operating system may give besides: with a capital, with
\* a character that is no letter and no digit.
AnyUsers == Users \cup {<<"B", "o">>, <<"b", ".", "o">>}

\* The state of a process that has called none of the entry points yet.
InitOf(users) ==
    /\ CHILD_PROCESSES = <<>>
    /\ live = {}
    /\ config_state = [id \in ConfigIds \ {0} |-> FALSE]
    /\ hosts = {}
    /\ pods = <<>>
    /\ username \in users
    /\ call = [p \in Procs |-> Idle]
    /\ calls = 0
    /\ faults = 0

Init == InitOf(Users)

\* The entry points called one after the other by the callers in procs.
NextOf(procs, env, pools) ==
    \E p \in procs :
        \/ BeginStart(p, pools)
        \/ start_forward(p, env)
        \/ start_hosts(p, env)
        \/ start_state(p, env)
        \/ start_finish(p)
        \/ BeginStop(p)
        \/ stop_find(p)
        \/ stop_remove(p)
        \/ stop_hosts(p, env)
        \/ stop_state(p, env)
        \/ BeginStopAll(p)
        \/ stop_all_drain(p)
        \/ stop_all_load(p, env)
        \/ stop_all_abort(p, env)
        \/ stop_all_pods(p, env)
        \/ stop_all_update(p, env)
        \/ BeginDeploy(p, pools)
        \/ deploy_create(p, env)
        \/ deploy_wait(p, env)
        \/ deploy_started(p, env)
        \/ BeginStopProxy(p)
        \/ proxy_delete(p, env)
        \/ Return(p)

Stored == [start |-> StartPool, deploy |-> DeployPool]
Plain == [start |-> PlainStartPool, deploy |-> DeployPool]
Underscore == [start |-> UnderscoreStartPool, deploy |-> DeployPool]
Ephemeral == [start |-> EphemeralStartPool, deploy |-> EphemeralDeployPool]
Batch == [start |-> BatchStartPool, deploy |-> BatchDeployPool]

\* One caller, every outcome of the collaborators.
Next == NextOf({1}, Faulty, Stored)

Spec == Init /\ [][Next]_vars

\* One caller, collaborators that do not fail, plain service names.
NextReliable == NextOf({1}, Reliable, Plain)

SpecReliable == Init /\ [][NextReliable]_vars

\* One caller, collaborators that do not fail, a service name with "_".
NextUnderscore == NextOf({1}, Reliable, Underscore)

SpecUnderscore == Init /\ [][NextUnderscore]_vars

\* One caller, only get_configs_state, get_configs and get_config may fail.
NextUnreadable == NextOf({1}, Unreadable, Plain)

SpecUnreadable == Init /\ [][NextUnreadable]_vars

\* One caller, only the writes of the hosts file may fail.
NextUnwritable == NextOf({1}, Unwritable, Plain)

SpecUnwritable == Init /\ [][NextUnwritable]_vars

\* One caller that deploys batches of two, every outcome of the collaborators.
NextBatch == NextOf({1}, Faulty, Batch)

SpecBatch == Init /\ [][NextBatch]_vars

\* One caller of retrieve_service_configs, a cluster that may fail.
NextRetrieve ==
    \E p \in {1} :
        \/ BeginRetrieve(p)
        \/ retrieve_connect(p, Faulty)
        \/ retrieve_namespace(p, Faulty)
        \/ Return(p)

SpecRetrieve == Init /\ [][NextRetrieve]_vars

\* One caller, collaborators that do not fail, any user name.
InitAnyUser == InitOf(AnyUsers)

SpecAnyUser == InitAnyUser /\ [][NextReliable]_vars

\* One caller of parse_configs.
NextParse ==
    \E p \in {1} :
        \/ BeginParseConfigs(p)
        \/ parse_configs_apply(p)
        \/ Return(p)

SpecParse == Init /\ [][NextParse]_vars

\* One caller that also passes configs without an id.
NextEphemeral == NextOf({1}, Reliable, Ephemeral)

SpecEphemeral == Init /\ [][NextEphemeral]_vars

\* Two callers whose start_port_forward, stop_port_forward and
\* stop_all_port_forward calls interleave step by step; collaborators that
\* do not fail.
NextConcurrent ==
    \E p \in Procs :
        \/ BeginStart(p, Plain)
        \/ start_forward(p, Reliable)
        \/ start_hosts(p, Reliable)
        \/ start_state(p, Reliable)
        \/ start_finish(p)
        \/ BeginStop(p)
        \/ stop_find(p)
        \/ stop_remove(p)
        \/ stop_hosts(p, Reliable)
        \/ stop_state(p, Reliable)
        \/ BeginStopAll(p)
        \/ stop_all_drain(p)
        \/ stop_all_load(p, Reliable)
        \/ stop_all_abort(p, Reliable)
        \/ stop_all_pods(p, Reliable)
        \/ stop_all_update(p, Reliable)
        \/ Return(p)

SpecConcurrent == Init /\ [][NextConcurrent]_vars

\* Two callers that start and stop the one config K1: the calls that race
\* for one registry key.
NextRace ==
    \E p \in Procs :
        \/ BeginStart(p, Batch)
        \/ start_forward(p, Reliable)
        \/ start_hosts(p, Reliable)
        \/ start_state(p, Reliable)
        \/ start_finish(p)
        \/ BeginStop(p)
        \/ stop_find(p)
        \/ stop_remove(p)
        \/ stop_hosts(p, Reliable)
        \/ stop_state(p, Reliable)
        \/ BeginStopAll(p)
        \/ stop_all_drain(p)
        \/ stop_all_load(p, Reliable)
        \/ stop_all_abort(p, Reliable)
        \/ stop_all_pods(p, Reliable)
        \/ stop_all_update(p, Reliable)
        \/ Return(p)

SpecRace == Init /\ [][NextRace]_vars

\* ================================================================ properties
\* The keys of a registry that start with "<id>_".
keys_of_id(map, id) == {k \in DOMAIN map : has_id_prefix(k, to_string(id))}

\* start_port_forward has returned to its caller, or into
\* deploy_and_forward_pod.
StartReturned(p) ==
    \/ call[p].op = "start" /\ call[p].pc = "done"
    \/ call[p].pc = "deploy_started"

StartSucceeded(p) == StartReturned(p) /\ Unwrap(call[p].start_result).ok

StartFailed(p) == StartReturned(p) /\ ~Unwrap(call[p].start_result).ok

\* stop_port_forward has run to its return, called directly or from
\* stop_proxy_forward.
StopReturned(p) ==
    /\ call[p].op \in {"stop", "stop_proxy"}
    /\ call[p].pc = "done"
    /\ IsSome(call[p].pending)

StopAllReturned(p) == call[p].op = "stop_all" /\ call[p].pc = "done"

DeployReturned(p) == call[p].op = "deploy" /\ call[p].pc = "done"

\* No call is in progress.
Quiescent == \A p \in Procs : call[p].op = "idle"

C2_StopOneClearsId ==
    \A p \in Procs :
        StopReturned(p) =>
            LET id == parse_i64_or_default(call[p].config_id)
            IN  /\ keys_of_id(CHILD_PROCESSES, id) = {}
                /\ ~config_state[id]

\* ------------------------------------------------------------------- C3
\* The keys start_port_forward pushed on child_handles.
inserted_keys(c) == {c.child_handles[n] : n \in 1..Len(c.child_handles)}

C4_RegistryMatchesLiveTasks ==
    Quiescent =>
        /\ Handles(CHILD_PROCESSES) = live
        /\ \A k1, k2 \in DOMAIN CHILD_PROCESSES :
               CHILD_PROCESSES[k1] = CHILD_PROCESSES[k2] => k1 = k2

\* ------------------------------------------------------------------- C5
\* C5: when stop_all_port_forward has returned, the registry is empty.
C5_StopAllEmptiesRegistry ==
    \A p \in Procs : StopAllReturned(p) => DOMAIN CHILD_PROCESSES = {}

\* A stop_all_port_forward that returned after draining two handles.
C5_Witness ==
    \E p \in Procs :
        StopAllReturned(p) /\ Cardinality(DOMAIN call[p].handle_map) = 2

\* ------------------------------------------------------------------- C6
\* The registry entry of a helper pod: the key "<config id>_<pod name>".
pod_registered(name) ==
    \E k \in DOMAIN CHILD_PROCESSES :
        LET parts == split_once_or_empty(k, "_")
        IN  parts[2] = name /\ (name \in DOMAIN pods => parts[1] = pods[name])

\* deploy_and_forward_pod returned because the pod did not become ready.
ReadinessFailed(p) ==
    DeployReturned(p) /\ call[p].result = Some(Err(<<"wait">>))

marker_of_key(key) ==
    LET parts == split_once_or_empty(key, "_")
    IN  hostfile_comment(parts[2], parts[1])

\* C7: once the stop_port_forward or stop_all_port_forward call that takes a
\* started forward out of the registry has returned, the hosts file holds no
\* block with the marker of that forward.
C7_StopRemovesHostsBlock ==
    \A p \in Procs :
        /\ (StopReturned(p) /\ IsSome(call[p].composite_key)) =>
               marker_of_key(Unwrap(call[p].composite_key)) \notin hosts
        /\ StopAllReturned(p) =>
               \A k \in DOMAIN call[p].handle_map : marker_of_key(k) \notin hosts

\* ------------------------------------------------------------------- C8
\* The address of a config with domain_enabled does not parse as an IP.
address_invalid(config) ==
    /\ UnwrapOr(config.domain_enabled, FALSE)
    /\ IsSome(config.service)
    /\ IsSome(config.local_address)
    /\ ~parse_ip_ok(Unwrap(config.local_address))

\* C8: a local_address that does not parse is a warning only: when
\* start_port_forward has returned and nothing else went wrong in the batch,
\* the handle of that config is still in the registry and not aborted.
C8_InvalidAddressKeepsForward ==
    \A p \in Procs :
        (/\ StartReturned(p)
         /\ \A n \in 1..Len(call[p].errors) : call[p].errors[n] = "invalid_ip") =>
            \A n \in 1..Len(call[p].configs) :
                address_invalid(call[p].configs[n]) =>
                    /\ handle_key(call[p].configs[n]) \in DOMAIN CHILD_PROCESSES
                    /\ CHILD_PROCESSES[handle_key(call[p].configs[n])] \in live

\* ------------------------------------------------------------------- C9
\* C9: stop_all_port_forward never returns early: whatever the collaborators
\* do, it returns the list with exactly one response per drained handle.
C9_StopAllReturnsOneResponsePerHandle ==
    \A p \in Procs :
        StopAllReturned(p) =>
            /\ Unwrap(call[p].result).ok
            /\ Len(Unwrap(call[p].result).val)
                   = Cardinality(DOMAIN call[p].handle_map)

\* ------------------------------------------------------------------ C10
\* C10: under every interleaving of start_port_forward with concurrent
\* stop_port_forward and stop_all_port_forward calls, once the calls have
\* completed, every id with a key in the registry has is_running = true.
C10_RegisteredIdsAreRunning ==
    Quiescent =>
        \A k \in DOMAIN CHILD_PROCESSES :
            config_state[parse_i64_or_default(split_once_or_empty(k, "_")[1])]

\* ------------------------------------------------------------------ C11
\* The ids of the configs in the config store.
known_ids == {Unwrap(StoredConfigs[n].id) : n \in 1..Len(StoredConfigs)}

\* C11: when stop_all_port_forward has returned, the state store has
\* is_running = false for every config of the config store, whether or not
\* it had a registry entry.
C11_StopAllMarksEveryConfigStopped ==
    \A p \in Procs :
        StopAllReturned(p) => \A id \in known_ids : ~config_state[id]

\* ------------------------------------------------------------------ C12
\* A step in which caller p calls update_config_state.
StoreWriteStep(p) ==
    /\ call[p].pc \in {"start_state", "stop_state", "stop_all_update"}
    /\ call'[p].pc # call[p].pc

\* C12: a failed update_config_state never propagates: a step of
\* start_port_forward, stop_port_forward or stop_all_port_forward that
\* writes the state leaves the registry and the tasks as they are and adds no
\* error, and what the call returns is what its locals held before the write
\* (the response of the config, the pending result, the response list),
\* whether the store accepted the write or not.
C12_StoreWriteFailureNeverPropagates ==
    [][\A p \in Procs :
          StoreWriteStep(p) =>
              /\ CHILD_PROCESSES' = CHILD_PROCESSES
              /\ live' = live
              /\ call'[p].errors = call[p].errors
              /\ call[p].pc = "start_state" =>
                     /\ call'[p].result = call[p].result
                     /\ call'[p].pc # "panicked" =>
                            /\ Len(call'[p].responses) = Len(call[p].responses) + 1
                            /\ call'[p].i = call[p].i + 1
              /\ call[p].pc = "stop_state" =>
                     call'[p].result = call[p].pending
              /\ call[p].pc = "stop_all_update" =>
                     call'[p].result = Some(Ok(call[p].responses))]_vars

\* A start_port_forward that returned Ok although the store refused the
\* write of one of its configs.
C12_Witness ==
    \E p \in Procs :
        /\ StartSucceeded(p)
        /\ \E n \in 1..Len(call[p].configs) :
               Unwrap(call[p].configs[n].id) \notin call[p].reconciled

\* ------------------------------------------------------------------ C13
\* stop_port_forward is at its search and no key has the prefix of its id.
StopFindsNoKey(p) ==
    /\ call[p].pc = "stop_find"
    /\ call'[p].pc # "stop_find"
    /\ \A k \in DOMAIN CHILD_PROCESSES : ~has_id_prefix(k, call[p].config_id)

\* stop_port_forward writes the state on its path without a key.
StopWritesWithoutKey(p) ==
    /\ call[p].pc = "stop_state"
    /\ call'[p].pc # "stop_state"
    /\ ~IsSome(call[p].composite_key)

\* C13: stop_port_forward(id) called when no registry key has the prefix
\* "<id>_" returns the "not found" error, still writes is_running = false
\* for id (the write takes effect unless the store refuses it), and leaves
\* the registry, the tasks and the hosts file unchanged.
C13_StopWithoutKeyIsIdempotent ==
    /\ [][\A p \in Procs :
            /\ StopFindsNoKey(p) =>
                   /\ ~IsSome(call'[p].composite_key)
                   /\ call'[p].pc = "stop_state"
                   /\ UNCHANGED <<CHILD_PROCESSES, live, hosts, config_state>>
            /\ StopWritesWithoutKey(p) =>
                   /\ call'[p].result = Some(Err(<<"not_found">>))
                   /\ \/ ~config_state'[parse_i64_or_default(call[p].config_id)]
                      \/ faults' > faults /\ config_state' = config_state
                   /\ UNCHANGED <<CHILD_PROCESSES, live, hosts>>]_vars
    /\ [](\A p \in Procs :
            (StopReturned(p) /\ ~IsSome(call[p].composite_key)) =>
                /\ call[p].result = Some(Err(<<"not_found">>))
                /\ LET id == parse_i64_or_default(call[p].config_id)
                   IN  id \in call[p].reconciled => ~config_state[id])

\* A stop_port_forward that found no key for its id in a registry that
\* holds a forward of another id, and whose write went through.
C13_Witness ==
    \E p \in Procs :
        /\ StopReturned(p)
        /\ ~IsSome(call[p].composite_key)
        /\ parse_i64_or_default(call[p].config_id) \in call[p].reconciled
        /\ DOMAIN CHILD_PROCESSES # {}

\* ------------------------------------------------------------------ C14
\* C14: when start_port_forward has returned Ok, the list it returned has
\* one response per config of the batch, and the i-th response is the one of
\* the i-th config (its id and its service).
C14_ResponsesInInputOrder ==
    \A p \in Procs :
        StartSucceeded(p) =>
            LET returned == Unwrap(call[p].start_result).val
            IN  /\ Len(returned) = Len(call[p].configs)
                /\ \A n \in 1..Len(returned) :
                       /\ returned[n].id = call[p].configs[n].id
                       /\ Some(returned[n].service) = call[p].configs[n].service
                       /\ returned[n].status = 0

\* A successful start of a batch of two configs.
C14_Witness ==
    \E p \in Procs :
        /\ StartSucceeded(p)
        /\ Len(call[p].configs) = 2
        /\ call[p].configs[1].id # call[p].configs[2].id

\* ------------------------------------------------------------------ C15
\* C15: every key start_port_forward has put into the registry is parsed
\* alike by the stop paths: the parts stop_all_port_forward gets are two, and
\* they are the (id, service) pair stop_port_forward gets by splitting at
\* the first "_", also for a service whose name holds a "_".
C15_StopPathsSplitAtFirstUnderscore ==
    \A k \in DOMAIN CHILD_PROCESSES :
        LET ids == split(k, "_")
            pair == split_once_or_empty(k, "_")
        IN  /\ Len(ids) = 2
            /\ ids[1] = pair[1]
            /\ ids[2] = pair[2]

\* ------------------------------------------------------------------ C16
ParseReturned(p) == call[p].op = "parse_configs" /\ call[p].pc = "done"

\* A text of digits.
is_numeric(s) == s # <<>> /\ \A k \in 1..Len(s) : IsDigit(s[k])

\* An entry of the form alias-localPort-targetPort whose localPort is a port
\* number and whose targetPort is a number or a port name of the service.
well_formed_entry(entry, ports) ==
    LET parts == split(trim(entry), "-")
    IN  /\ Len(parts) = 3
        /\ is_numeric(parts[2]) /\ DecimalValue(parts[2]) <= U16Max
        /\ is_numeric(parts[3]) \/ parts[3] \in DOMAIN ports

\* The target port an entry names.
named_target_port(entry, ports) ==
    LET parts == split(trim(entry), "-")
    IN  IF is_numeric(parts[3]) THEN DecimalValue(parts[3]) ELSE ports[parts[3]]

\* C16: parse_configs yields exactly one config per well-formed entry
\* alias-localPort-targetPort, in the order of the entries, with remote_port
\* the numeric targetPort or, for a targetPort that is no number, the service
\* port of that name; every other entry is dropped.
C16_OneConfigPerWellFormedEntry ==
    \A p \in Procs :
        ParseReturned(p) =>
            LET ports == call[p].ports
                Kept(entry) == well_formed_entry(entry, ports)
                kept == SelectSeq(split(call[p].configs_str, ","), Kept)
                configs == call[p].discovered
            IN  /\ Len(configs) = Len(kept)
                /\ \A n \in 1..Len(kept) :
                       /\ configs[n].alias = Some(split(trim(kept[n]), "-")[1])
                       /\ configs[n].remote_port
                              = Some(named_target_port(kept[n], ports))

\* ------------------------------------------------------------------ C17
\* C17: every handle that stop_port_forward, stop_all_port_forward or
\* stop_proxy_forward has removed or drained from the registry is aborted
\* when the operation returns, on every return path, also when the removal
\* of a hosts block fails in stop_all_port_forward.
C17_RemovedHandlesAreAborted ==
    \A p \in Procs :
        (StopReturned(p) \/ StopAllReturned(p)) => call[p].taken \cap live = {}

\* ------------------------------------------------------------------ C18
\* The step of start_port_forward in which the hosts write of the current
\* config fails.
HostsWriteFails(p) ==
    /\ call[p].pc = "start_hosts"
    /\ call'[p].errors = Append(call[p].errors, "hostfile")

\* The only errors of a start_port_forward call are failed hosts writes.
OnlyHostsWritesFailed(p) ==
    /\ call[p].errors # <<>>
    /\ \A n \in 1..Len(call[p].errors) : call[p].errors[n] = "hostfile"

C19_NotifiedBeforeAnyAccess ==
    \A p \in Procs :
        call[p].op \in {"stop", "stop_all", "stop_proxy"} => call[p].early = {}

\* ------------------------------------------------------------------ C20
DeployFailed(p) == DeployReturned(p) /\ ~Unwrap(call[p].result).ok

\* The call created a pod for the config it failed on.
FailedAfterCreate(p) == Cardinality(call[p].created) = call[p].j

\* deploy_and_forward_pod stopped at the config it failed on: the configs
\* before it have their responses, no pod was created for a later one.
StoppedAtFailure(p) ==
    /\ Len(call[p].dresponses) = call[p].j - 1
    /\ Cardinality(call[p].created) \in {call[p].j - 1, call[p].j}

ProxyReturnedAfterList(p) ==
    /\ call[p].op = "stop_proxy"
    /\ call[p].pc = "done"
    /\ IsSome(call[p].pending) \/ call[p].result = Some(Err(<<"delete">>))

\* C21: whenever stop_proxy_forward(id) returns after listing the pods, it
\* has invoked stop_port_forward(id) (after the deletion of the first pod
\* with the prefix), so that the registry holds no key with the prefix
\* "<id>_".
C21_StopProxyAlwaysStopsForward ==
    \A p \in Procs :
        ProxyReturnedAfterList(p) =>
            /\ call[p].notified
            /\ keys_of_id(CHILD_PROCESSES, parse_i64_or_default(call[p].config_id)) = {}

\* ------------------------------------------------------------------ C22
\* C22: every helper pod deploy_and_forward_pod has created is matched by
\* the filter of stop_proxy_forward and of stop_all_port_forward: whatever
\* the user name of the process, the name of the pod starts with the prefix
\* "kftray-forward-<user>" that the stop paths format from that user name.
C22_PodNamesMatchCleanupPrefix ==
    \A name \in DOMAIN pods : starts_with(name, pod_prefix(username))

\* ------------------------------------------------------------------ C23
\* The keys of the forwards that caller p is stopping: a stop path has found
\* (or drained) them and has not yet done the abort, the hosts cleanup and
\* the write of is_running = false for them.
stopping_keys(p) ==
    IF /\ call[p].op \in {"stop", "stop_proxy"}
       /\ call[p].pc \in {"stop_remove", "stop_hosts", "stop_state"}
       /\ IsSome(call[p].composite_key)
    THEN {Unwrap(call[p].composite_key)}
    ELSE IF /\ call[p].op = "stop_all"
            /\ call[p].pc \in {"stop_all_load", "stop_all_abort", "stop_all_pods",
                               "stop_all_update"}
    THEN DOMAIN call[p].handle_map
    ELSE {}

\* The keys of the forwards a stop path of caller p has stopped.
stopped_keys(p) ==
    IF StopReturned(p) /\ IsSome(call[p].composite_key)
    THEN {Unwrap(call[p].composite_key)}
    ELSE IF StopAllReturned(p) THEN DOMAIN call[p].handle_map
    ELSE {}

\* C23: the key of a forward is in the registry in every state from the
\* success of the transport until abort, hosts cleanup and the write of
\* is_running = false have all completed (Running and Stopping), and in no
\* other state: it is there while the forward is being stopped and gone once
\* it is stopped.
C23_RegisteredWhileRunningOrStopping ==
    \A p \in Procs :
        /\ stopping_keys(p) \subseteq DOMAIN CHILD_PROCESSES
        /\ stopped_keys(p) \cap DOMAIN CHILD_PROCESSES = {}

\* ------------------------------------------------------------------ C24
\* The registry after a step is the registry before it, or one map
\* operation away from it: an insert, a remove, or the drain.
OneMapOperation ==
    \/ CHILD_PROCESSES' = CHILD_PROCESSES
    \/ \E k \in DOMAIN CHILD_PROCESSES' :
           CHILD_PROCESSES' = insert(CHILD_PROCESSES, k, CHILD_PROCESSES'[k])
    \/ \E k \in DOMAIN CHILD_PROCESSES :
           CHILD_PROCESSES' = remove(CHILD_PROCESSES, k)
    \/ CHILD_PROCESSES' = drain(CHILD_PROCESSES)

\* Caller p leaves the block in which stop_port_forward removes the key.
StopRemoveStep(p) == call[p].pc = "stop_remove" /\ call'[p].pc # "stop_remove"

\* C24 as stated: find-then-remove of stop_port_forward behaves atomically
\* with respect to the other callers: the entry it found is the entry it
\* removes.
C24_FindThenRemoveIsAtomic ==
    \A p \in Procs :
        call[p].pc = "stop_remove" =>
            Unwrap(call[p].composite_key) \in DOMAIN CHILD_PROCESSES

\* C24 amended: the registry mutex is held across one map operation at a
\* time (every step changes the registry by at most one insert, remove or
\* drain, and the steps that read or write a store, remove a hosts block or
\* call the cluster leave it as it is).  The search of stop_port_forward and its remove are two
\* such operations, between which the other callers may change the
\* registry; the remove alone is atomic: the caller whose remove finds the
\* key gets the handle, aborts it and leaves no entry, a caller whose
\* remove finds nothing aborts nothing and goes on with the cleanup.
C24_OneMapOperationPerLock ==
    [][/\ OneMapOperation
       /\ \A p \in Procs :
            /\ (/\ call[p].pc \in {"start_state", "stop_hosts", "stop_state",
                                   "stop_all_load", "stop_all_abort",
                                   "stop_all_pods", "stop_all_update", "stop_find"}
                /\ call'[p] # call[p]) => CHILD_PROCESSES' = CHILD_PROCESSES
            /\ StopRemoveStep(p) =>
                 LET key == Unwrap(call[p].composite_key)
                 IN  /\ key \notin DOMAIN CHILD_PROCESSES'
                     /\ call'[p].pc = "stop_hosts"
                     /\ IF key \in DOMAIN CHILD_PROCESSES
                        THEN /\ call'[p].taken = {CHILD_PROCESSES[key]}
                             /\ CHILD_PROCESSES[key] \in live
                             /\ live' = live \ {CHILD_PROCESSES[key]}
                             /\ CHILD_PROCESSES' = remove(CHILD_PROCESSES, key)
                        ELSE /\ call'[p].taken = {}
                             /\ UNCHANGED <<CHILD_PROCESSES, live>>]_vars

\* A stop_port_forward that found a key and whose remove found nothing:
\* another caller took the entry in between.
C24_Witness ==
    \E p \in Procs :
        /\ call[p].op = "stop"
        /\ call[p].pc = "stop_hosts"
        /\ IsSome(call[p].composite_key)
        /\ call[p].taken = {}

\* ------------------------------------------------------------------ C25
\* The drained keys that stop_all_port_forward takes for malformed.
malformed_keys(map) == {k \in DOMAIN map : Len(split(k, "_")) # 2}

\* The responses of a list that report a malformed key.
key_format_errors(responses) ==
    {n \in 1..Len(responses) :
        /\ responses[n].status = 1
        /\ responses[n].stderr = <<"Invalid composite key format">>}

\* C25: when stop_all_port_forward has returned, every malformed key it
\* found in the registry has produced one response with status 1 and stderr
\* "Invalid composite key format", and every other drained entry has got its
\* own response and its handle is aborted.
C25_MalformedKeyDoesNotStopOthers ==
    \A p \in Procs :
        StopAllReturned(p) =>
            LET drained == call[p].handle_map
                responses == call[p].responses
            IN  /\ Cardinality(key_format_errors(responses))
                       = Cardinality(malformed_keys(drained))
                /\ \A k \in (DOMAIN drained) \ malformed_keys(drained) :
                       /\ drained[k] \notin live
                       /\ \E n \in 1..Len(responses) :
                              /\ IsSome(responses[n].id)
                              /\ format_key(Unwrap(responses[n].id),
                                            responses[n].service) = k

\* ------------------------------------------------------------------ C26
\* retrieve_service_configs has returned after list_all_namespaces gave it
\* the namespaces.
RetrieveReturned(p) ==
    /\ call[p].op = "retrieve"
    /\ call[p].pc = "done"
    /\ call[p].result # Some(Err(<<"connect">>))

\* How often a config is in a list.
Count(list, x) == Cardinality({n \in 1..Len(list) : list[n] = x})

\* How often a config is among the configs of the namespaces in ns.
RECURSIVE CountIn(_, _, _)
CountIn(namespaces, ns, x) ==
    IF ns = {} THEN 0
    ELSE LET n == CHOOSE m \in ns : TRUE
         IN  Count(namespace_configs(namespaces[n]), x)
             + CountIn(namespaces, ns \ {n}, x)

\* The configs of all the namespaces of a cluster.
all_configs(namespaces) ==
    UNION {{namespace_configs(namespaces[n])[k] :
               k \in 1..Len(namespace_configs(namespaces[n]))} :
           n \in 1..Len(namespaces)}

\* C26: a failure to list the services of a namespace does not fail
\* retrieve_service_configs: it returns Ok, and the list holds the configs of
\* every namespace whose listing succeeded, each as often as these
\* namespaces yield it, and nothing of a namespace whose listing failed.
C26_FailedNamespacesAreDropped ==
    \A p \in Procs :
        RetrieveReturned(p) =>
            LET returned == Unwrap(call[p].result)
            IN  /\ returned.ok
                /\ \A n \in 1..Len(returned.val) :
                       returned.val[n] \in all_configs(call[p].namespaces)
                /\ \A x \in all_configs(call[p].namespaces) :
                       Count(returned.val, x)
                           = CountIn(call[p].namespaces, call[p].listed, x)

\* A call in which the listing of one namespace with configs failed and that
\* of another one with configs succeeded.
C26_Witness ==
    \E p \in Procs :
        /\ RetrieveReturned(p)
        /\ \E failed \in (1..Len(call[p].namespaces)) \ call[p].listed :
               namespace_configs(call[p].namespaces[failed]) # <<>>
        /\ \E n \in call[p].listed :
               namespace_configs(call[p].namespaces[n]) # <<>>

\* ------------------------------------------------------------------ C27
\* C27: for every config the data model allows, also one without id or
\* without service, start_port_forward ends by returning its responses or
\* its error: it never panics after the transport has handed it a task
\* handle.
C27_StartNeverPanicsWithHandle ==
    \A p \in Procs : call[p].pc = "panicked" => call[p].obtained = {}

\* ------------------------------------------------------------------ C28
\* The markers of the hosts blocks a start_port_forward call has written:
\* those of its configs with domain_enabled and an IP address whose forward
\* it had registered (the hosts file accepting the write).
installed_markers(c) ==
    {hostfile_comment(Unwrap(c.configs[n].service), to_string(Unwrap(c.configs[n].id))) :
        n \in {m \in 1..Len(c.configs) :
                  /\ IsSome(c.configs[m].id)
                  /\ handle_key(c.configs[m]) \in inserted_keys(c)
                  /\ UnwrapOr(c.configs[m].domain_enabled, FALSE)
                  /\ IsSome(c.configs[m].service)
                  /\ IsSome(c.configs[m].local_address)
                  /\ parse_ip_ok(Unwrap(c.configs[m].local_address))}}

\* C28: when start_port_forward has returned an error, the hosts file holds
\* no block that this call installed: the rollback of the forwards it had
\* started removes their hosts blocks as well.
C28_StartErrorRemovesHostsBlocks ==
    \A p \in Procs :
        StartFailed(p) => installed_markers(call[p]) \cap hosts = {}

\* ------------------------------------------------------------------ C29
\* C29: whenever no call is in progress and no write of the state store
\* has failed, the store has is_running = true for an id only if the
\* registry holds a key with the prefix "<id>_"; in particular no config
\* whose handle start_port_forward has rolled back is recorded as running.
C29_RunningOnlyIfRegistered ==
    Quiescent =>
        \A id \in DOMAIN config_state :
            config_state[id] => keys_of_id(CHILD_PROCESSES, id) # {}

\* ------------------------------------------------------------------ C30
\* The integer target ports a service names for the configs derived from it:
\* those of the well-formed entries of its annotation or, without the
\* annotation, its ports.
target_ports(service) ==
    IF IsSome(service.annotation)
    THEN LET entries == split(Unwrap(service.annotation), ",")
         IN  {named_target_port(entries[n], service.ports) :
                 n \in {m \in 1..Len(entries) :
                           well_formed_entry(entries[m], service.ports)}}
    ELSE {service.ports[name] : name \in DOMAIN service.ports}

\* C30: every config that parse_configs and create_default_configs have
\* produced for retrieve_service_configs has as remote_port an integer
\* target port of the service it was derived from: a target port outside
\* 0..65535 is never wrapped modulo 2^16 into another port.
C30_RemotePortIsTheTargetPort ==
    \A p \in Procs :
        (RetrieveReturned(p) /\ Unwrap(call[p].result).ok) =>
            \A n \in 1..Len(Unwrap(call[p].result).val) :
                LET config == Unwrap(call[p].result).val[n]
                IN  \E m \in 1..Len(call[p].namespaces) :
                        \E k \in 1..Len(call[p].namespaces[m]) :
                            LET service == call[p].namespaces[m][k]
                            IN  /\ config.service = Some(service.name)
                                /\ Unwrap(config.remote_port) \in target_ports(service)

====
